---- MODULE Spec2Model ----
(***************************************************************************)
(* Filters of Flax NNX and the grouping of State done by split, as the     *)
(* "Using Filters" guide gives them: the Filter DSL and its predicates,    *)
(* the conversion of literals to predicates, and the split function that   *)
(* groups the (path, value) pairs of a flat state by first match.          *)
(***************************************************************************)
EXTENDS Integers, Sequences, FiniteSets

(***************************************************************************)
(* Bounds of the model.                                                    *)
(***************************************************************************)
\* the most filters one call of split is given
MaxFilters == 2
\* the most Variables one node holds
MaxLeaves == 2
\* the size of a filter literal: every atom, list and combinator counts one
MaxWeight == 4

(***************************************************************************)
(* Types (kinds) and values.                                               *)
(***************************************************************************)
Types == {"object", "Param", "SpecialParam", "BatchStat", "RngKey", "VariableState"}

\* The class a class derives from; object is the root.  SpecialParam is
\* declared as class SpecialParam(nnx.Param); the framework's own classes
\* between a Variable type and object are elided: no filter here names them.
Bases(cls) == IF cls = "SpecialParam" THEN "Param" ELSE "object"

RECURSIVE issubclass(_, _)

\* issubclass with its arguments taken the other way round
RECURSIVE issubclass_flipped(_, _)
issubclass_flipped(cls, type) ==
  \/ type = cls
  \/ type # "object" /\ issubclass_flipped(cls, Bases(type))

issubclass(cls, type) ==
  \/ cls = type
  \/ cls # "object" /\ issubclass(Bases(cls), type)

isinstance(value, type) == issubclass(value.cls, type)

\* A value: its class, and the attributes `type` and `tag` when it has them.
Value(cls, has_type, type, has_tag, tag, value) ==
  [cls |-> cls, has_type |-> has_type, type |-> type,
   has_tag |-> has_tag, tag |-> tag, value |-> value]

\* nnx.Param(0), SpecialParam(0), nnx.BatchStat(True): a Variable of a type
Variable(type, value) == Value(type, FALSE, "object", FALSE, "", value)
\* VariableState(type=..., value=...), as the State of a node holds it
VariableState(type, value) ==
  Value("VariableState", TRUE, type, FALSE, "", value)
\* the state of an RngKey or RngCount: it also has a string tag
TaggedState(type, tag, value) ==
  Value("VariableState", TRUE, type, TRUE, tag, value)
\* a value with no attribute at all
PlainObject == Value("object", FALSE, "object", FALSE, "", "obj")

(***************************************************************************)
(* Filters.  A filter literal and a predicate are records of one shape,    *)
(* [tag, arg, items]: a predicate is itself a filter (a callable), so the  *)
(* conversion can pass it through unchanged.                               *)
(***************************************************************************)
Filter(tag, arg, items) == [tag |-> tag, arg |-> arg, items |-> items]

\* the literals of the DSL
Ellipsis == Filter("Ellipsis", "", <<>>)
TrueLit == Filter("bool", "True", <<>>)
FalseLit == Filter("bool", "False", <<>>)
NoneLit == Filter("None", "", <<>>)
TypeLit(type) == Filter("type", type, <<>>)
StrLit(s) == Filter("str", s, <<>>)
\* a tuple or a list of filters
SeqLit(filters) == Filter("seq", "", filters)
\* a value that is no filter: the integer 42
IntLit == Filter("int", "42", <<>>)

\* what a conversion that raises yields
TypeError == Filter("TypeError", "", <<>>)

\* the callable Filters
PredicateTags ==
  {"Everything", "Nothing", "OfType", "WithTag", "PathContains", "Any", "All", "Not"}
callable(filter) == filter.tag \in PredicateTags

Everything == Filter("Everything", "", <<>>)
Nothing == Filter("Nothing", "", <<>>)
OfType(type) == Filter("OfType", type, <<>>)
WithTag(tag) == Filter("WithTag", tag, <<>>)
PathContains(key) == Filter("PathContains", key, <<>>)

\* a value of no recognized form is refused when it is converted
InvalidFilter(filter) == TypeError

RECURSIVE to_predicate(_)

RECURSIVE to_predicates(_)
to_predicates(filters) ==
  IF filters = <<>> THEN <<>>
  ELSE <<to_predicate(Head(filters))>> \o to_predicates(Tail(filters))

\* the predicates of the filters given to a combinator, or TypeError when
\* one of them is no filter
Combinator(tag, filters) ==
  LET predicates == to_predicates(filters)
  IN IF \E i \in 1..Len(filters) : predicates[i] = TypeError
     THEN TypeError
     ELSE Filter(tag, "", predicates)

Any(filters) == Combinator("Any", filters)
All(filters) == Combinator("All", filters)
Not(filter) == Combinator("Not", <<filter>>)

\* to_predicate taking any bool for True
to_predicate_truthy(filter) ==
  CASE filter.tag = "str" -> WithTag(filter.arg)
    [] filter.tag = "type" -> OfType(filter.arg)
    [] filter.tag = "bool" -> Everything
    [] filter.tag = "Ellipsis" -> Everything
    [] filter.tag = "None" -> Nothing
    [] callable(filter) -> filter
    [] filter.tag = "seq" -> Any(filter.items)
    [] OTHER -> InvalidFilter(filter)

to_predicate(filter) ==
  CASE filter.tag = "str" -> WithTag(filter.arg)
    [] filter.tag = "type" -> OfType(filter.arg)
    [] filter.tag = "bool" -> IF filter.arg = "True" THEN Everything ELSE Nothing
    [] filter.tag = "Ellipsis" -> Everything
    [] filter.tag = "None" -> Nothing
    [] callable(filter) -> filter
    [] filter.tag = "seq" -> Any(filter.items)
    [] OTHER -> InvalidFilter(filter)

(***************************************************************************)
(* Calling a predicate on (path, value).                                   *)
(***************************************************************************)
\* OfType comparing the types for equality
OfType_call_exact(type, path, value) ==
  value.cls = type \/ (value.has_type /\ value.type = type)

OfType_call(type, path, value) ==
  isinstance(value, type) \/ (value.has_type /\ issubclass(value.type, type))

WithTag_call(tag, path, value) == value.has_tag /\ value.tag = tag

PathContains_call(key, path, value) == \E i \in 1..Len(path) : path[i] = key

RECURSIVE Call(_, _, _)

\* Any asking every predicate to match
Any_call_all(preds, path, value) ==
  \A i \in 1..Len(preds) : Call(preds[i], path, value)

Any_call(predicates, path, value) ==
  \E i \in 1..Len(predicates) : Call(predicates[i], path, value)

All_call(predicates, path, value) ==
  \A i \in 1..Len(predicates) : Call(predicates[i], path, value)

\* Not handing on what its predicate returns
Not_call_plain(predicates, path, value) == Call(predicates[1], path, value)

Not_call(predicates, path, value) == ~Call(predicates[1], path, value)

Call(predicate, path, value) ==
  CASE predicate.tag = "Everything" -> TRUE
    [] predicate.tag = "Nothing" -> FALSE
    [] predicate.tag = "OfType" -> OfType_call(predicate.arg, path, value)
    [] predicate.tag = "WithTag" -> WithTag_call(predicate.arg, path, value)
    [] predicate.tag = "PathContains" -> PathContains_call(predicate.arg, path, value)
    [] predicate.tag = "Any" -> Any_call(predicate.items, path, value)
    [] predicate.tag = "All" -> All_call(predicate.items, path, value)
    [] predicate.tag = "Not" -> Not_call(predicate.items, path, value)

(***************************************************************************)
(* The filters and the (path, value) pairs the model draws from.           *)
(***************************************************************************)
\* the filters a tuple, a list or a combinator is built from
InnerAtoms ==
  {Ellipsis, NoneLit, TypeLit("Param"), StrLit("dropout"), IntLit, PathContains("c")}

\* further filters, given on their own
TopAtoms ==
  {TrueLit, FalseLit, StrLit("params"), Everything, Nothing, WithTag("dropout")}
    \cup {TypeLit(type) : type \in Types} \cup {OfType(type) : type \in Types}

\* A \cup B; TLC sorts A to count it, and then looks the elements of B up
\* in it by bisection
Union(A, B) == IF Cardinality(A) = 0 THEN B ELSE A \cup B

\* the sequences of filters of weight s together, byWeight[k] being the
\* filters of weight k; SeqsByHead gives those whose first filter weighs
\* at most k
RECURSIVE FilterSeqsOfWeight(_, _), SeqsByHead(_, _, _)
SeqsByHead(byWeight, s, k) ==
  IF k = 0 THEN {}
  ELSE Union(SeqsByHead(byWeight, s, k - 1),
             {<<f>> \o rest : f \in byWeight[k],
                              rest \in FilterSeqsOfWeight(byWeight, s - k)})

FilterSeqsOfWeight(byWeight, s) ==
  IF s = 0 THEN {<<>>} ELSE SeqsByHead(byWeight, s, s)

\* the tuple or the combinator of a kind built from the filters fs;
\* TypeError when the combinator raises where it is built
Build(kind, fs) ==
  CASE kind = "seq" -> SeqLit(fs)
    [] kind = "Any" -> Any(fs)
    [] kind = "All" -> All(fs)
    [] kind = "Not" -> IF Len(fs) = 1 THEN Not(fs[1]) ELSE TypeError

\* the filters of weight w: an atom, or a tuple or a combinator of filters
\* of weight w - 1 together
FiltersOfWeight(byWeight, w) ==
  LET seqs == FilterSeqsOfWeight(byWeight, w - 1)
      built == {Build(kind, fs) : kind \in {"seq", "Any", "All", "Not"}, fs \in seqs}
  IN Union(IF w = 1 THEN InnerAtoms ELSE {}, {f \in built : f # TypeError})

RECURSIVE FiltersByWeight(_)
FiltersByWeight(byWeight) ==
  IF Len(byWeight) >= MaxWeight THEN byWeight
  ELSE FiltersByWeight(Append(byWeight, FiltersOfWeight(byWeight, Len(byWeight) + 1)))

\* Filters[1] holds the filters given on their own, Filters[1 + w] those of
\* weight w
Filters == <<TopAtoms>> \o FiltersByWeight(<<>>)

Paths == {<<>>, <<"a">>, <<"c", "a">>}

Values ==
  {Variable("Param", "0"), Variable("SpecialParam", "0"), Variable("BatchStat", "True"),
   VariableState("Param", "0"), VariableState("SpecialParam", "0"),
   TaggedState("RngKey", "dropout", "key"), PlainObject}

(***************************************************************************)
(* Nodes, their GraphDef and their State.  A tree is a record              *)
(* [kind, value, attrs]: attrs holds the <<key, child>> pairs of a Module  *)
(* or of a nested State in the order of their keys; a leaf holds a value.  *)
(***************************************************************************)
NoValue == Value("NoneType", FALSE, "object", FALSE, "", "")

Tree(kind, value, attrs) == [kind |-> kind, value |-> value, attrs |-> attrs]
Module(attrs) == Tree("Module", NoValue, attrs)
Leaf(kind, value) == Tree(kind, value, <<>>)

\* the keys in their order
KeyOrder == <<"a", "b", "c">>

\* the VariableState of a Variable, and the Variable of a type a
\* VariableState gives back
to_state(variable) ==
  Value("VariableState", TRUE, variable.cls, variable.has_tag, variable.tag, variable.value)
from_state(type, variable_state) ==
  Value(type, FALSE, "object", variable_state.has_tag, variable_state.tag,
        variable_state.value)

\* DictSet forgetting the items the dict held
DictSet_clobber(dict, key, value) == <<<<key, value>>>>

\* DictSet keyed by the last key of the path alone
DictSet_leafkey(dict, key, value) ==
  LET leaf == <<key[Len(key)]>>
  IN IF \E j \in 1..Len(dict) : dict[j][1] = leaf
     THEN [j \in 1..Len(dict) |-> IF dict[j][1] = leaf THEN <<leaf, value>> ELSE dict[j]]
     ELSE Append(dict, <<leaf, value>>)

\* a dict as the sequence of its <<key, value>> items, in insertion order
DictSet(dict, key, value) ==
  IF \E j \in 1..Len(dict) : dict[j][1] = key
  THEN [j \in 1..Len(dict) |-> IF dict[j][1] = key THEN <<key, value>> ELSE dict[j]]
  ELSE Append(dict, <<key, value>>)

\* the (path, value) pairs under a tree's attrs, each path after prefix
RECURSIVE FlatItems(_, _)
FlatItems(attrs, prefix) ==
  IF attrs = <<>> THEN <<>>
  ELSE LET path == Append(prefix, Head(attrs)[1])
           child == Head(attrs)[2]
       IN (IF child.attrs = <<>> /\ child.kind \notin {"Module", "State"}
           THEN <<<<path, child.value>>>>
           ELSE FlatItems(child.attrs, path))
            \o FlatItems(Tail(attrs), prefix)

\* State.flat_state()
flat_state(state) == FlatItems(state.attrs, <<>>)

\* State.from_flat_path(flat_state): the nested State of the flat one
RECURSIVE NestedAttrs(_, _)
NestedAttrs(flat, keys) ==
  IF keys = <<>> THEN <<>>
  ELSE LET key == Head(keys)
           under == SelectSeq(flat, LAMBDA item : item[1] # <<>> /\ Head(item[1]) = key)
           here == SelectSeq(under, LAMBDA item : Len(item[1]) = 1)
           below == [j \in 1..Len(under) |-> <<Tail(under[j][1]), under[j][2]>>]
       IN (IF under = <<>> THEN <<>>
           ELSE IF here # <<>>
             THEN <<<<key, Leaf("VariableState", here[Len(here)][2])>>>>
             ELSE <<<<key, Tree("State", NoValue, NestedAttrs(below, KeyOrder))>>>>)
            \o NestedAttrs(flat, Tail(keys))

from_flat_path(flat) == Tree("State", NoValue, NestedAttrs(flat, KeyOrder))

\* the GraphDef of a node: its Modules, and the type of each Variable
RECURSIVE GraphDefAttrs(_)
GraphDefAttrs(attrs) ==
  IF attrs = <<>> THEN <<>>
  ELSE LET key == Head(attrs)[1]
           child == Head(attrs)[2]
       IN <<<<key, IF child.kind = "Module"
                   THEN Module(GraphDefAttrs(child.attrs))
                   ELSE Leaf("VariableDef", Variable(child.value.cls, ""))>>>>
            \o GraphDefAttrs(Tail(attrs))

\* the State of a node: the VariableState of each Variable, at its path
RECURSIVE StateItems(_)
StateItems(items) ==
  IF items = <<>> THEN <<>>
  ELSE <<<<Head(items)[1], to_state(Head(items)[2])>>>> \o StateItems(Tail(items))

\* nnx.graph.flatten(node)
flatten(node) ==
  [graphdef |-> Module(GraphDefAttrs(node.attrs)),
   state |-> from_flat_path(StateItems(FlatItems(node.attrs, <<>>)))]

\* the values the States hold at a path
RECURSIVE Lookup(_, _)
Lookup(tree, path) ==
  IF path = <<>> THEN (IF tree.kind = "VariableState" THEN <<tree.value>> ELSE <<>>)
  ELSE LET at == SelectSeq(tree.attrs, LAMBDA attr : attr[1] = Head(path))
       IN IF at = <<>> THEN <<>> ELSE Lookup(at[1][2], Tail(path))

RECURSIVE LookupAll(_, _)
LookupAll(states, path) ==
  IF states = <<>> THEN <<>>
  ELSE Lookup(Head(states), path) \o LookupAll(Tail(states), path)

\* nnx.merge(graphdef, *states): the node of the GraphDef, each Variable
\* with what the States hold at its path
RECURSIVE MergeAttrs(_, _, _)
MergeAttrs(attrs, states, prefix) ==
  IF attrs = <<>> THEN <<>>
  ELSE LET key == Head(attrs)[1]
           child == Head(attrs)[2]
           path == Append(prefix, key)
           found == LookupAll(states, path)
       IN <<<<key, IF child.kind = "Module"
                   THEN Module(MergeAttrs(child.attrs, states, path))
                   ELSE IF found = <<>> THEN child
                   ELSE Leaf("Variable", from_state(child.value.cls, found[1]))>>>>
            \o MergeAttrs(Tail(attrs), states, prefix)

merge(graphdef, states) == Module(MergeAttrs(graphdef.attrs, states, <<>>))

(***************************************************************************)
(* The nodes and the filters split is called with.                         *)
(***************************************************************************)
NodeVariables ==
  {Variable("Param", "0"), Variable("SpecialParam", "0"), Variable("BatchStat", "True"),
   Value("RngKey", FALSE, "object", TRUE, "dropout", "key")}

Slots == NodeVariables \cup {NoValue}

\* the node with the Variables a and b, and the Module c with the Variable
\* a; a slot holding NoValue is not there, and has_c keeps c when it holds
\* nothing
Node(a, b, ca, has_c) ==
  LET attr(key, slot) == IF slot = NoValue THEN <<>> ELSE <<<<key, Leaf("Variable", slot)>>>>
  IN Module(attr("a", a) \o attr("b", b)
            \o (IF ca # NoValue \/ has_c THEN <<<<"c", Module(attr("a", ca))>>>> ELSE <<>>))

Nodes ==
  {Node(a, b, ca, has_c) : a \in Slots, b \in Slots,
                           ca \in Slots, has_c \in BOOLEAN}

Leaves(node) == Len(FlatItems(node.attrs, <<>>))

SplitFilters ==
  {Ellipsis, NoneLit, TypeLit("Param"), TypeLit("SpecialParam"),
   SeqLit(<<TypeLit("BatchStat"), StrLit("dropout")>>), PathContains("c"),
   IntLit, SeqLit(<<Ellipsis, SeqLit(<<IntLit>>)>>)}

FilterLists == UNION {[1..n -> SplitFilters] : n \in 0..MaxFilters}

(***************************************************************************)
(* The state: a call of split (the first variables), and one filter being  *)
(* converted and called (the last).                                        *)
(***************************************************************************)
VARIABLES node, filters, pc, graphdef, state, predicates, flat_states, n,
          error, states, evaluated, merged,
          lit, pred, fpc, arg_path, arg_value, ret

svars == <<node, filters, pc, graphdef, state, predicates, flat_states, n,
           error, states, evaluated, merged>>

fvars == <<lit, pred, fpc, arg_path, arg_value, ret>>

vars == <<svars, fvars>>

(***************************************************************************)
(* split(node, *filters)                                                   *)
(***************************************************************************)

NoError == [type |-> "", path |-> <<>>, value |-> NoValue]

\* the index of the first predicate from i on that (path, value) matches;
\* 0 when none does
RECURSIVE FirstMatch(_, _, _, _)

\* FirstMatch without the break: the last predicate that matches
FirstMatch_nobreak(preds, i, path, value) ==
  LET later == IF i >= Len(preds) THEN 0 ELSE FirstMatch(preds, i + 1, path, value)
  IN IF i > Len(preds) THEN 0
     ELSE IF later # 0 THEN later
     ELSE IF Call(preds[i], path, value) THEN i ELSE 0

\* FirstMatch never calling the last predicate
FirstMatch_skiplast(preds, i, path, value) ==
  IF i >= Len(preds) THEN 0
  ELSE IF Call(preds[i], path, value) THEN i
  ELSE FirstMatch(preds, i + 1, path, value)

FirstMatch(preds, i, path, value) ==
  IF i > Len(preds) THEN 0
  ELSE IF Call(preds[i], path, value) THEN i
  ELSE FirstMatch(preds, i + 1, path, value)

\* the loop of split over the first k pairs of flat, as one step: the
\* groups it fills, and whether it raised ValueError on the way
RECURSIVE Partition(_, _, _)
Partition(preds, flat, k) ==
  IF k = 0 THEN [raised |-> FALSE, flat_states |-> [i \in 1..Len(preds) |-> <<>>]]
  ELSE LET before == Partition(preds, flat, k - 1)
           path == flat[k][1]
           value == flat[k][2]
           i == FirstMatch(preds, 1, path, value)
       IN IF before.raised \/ i = 0
          THEN [raised |-> TRUE, flat_states |-> before.flat_states]
          ELSE [raised |-> FALSE,
                flat_states |-> [before.flat_states EXCEPT ![i] = DictSet(@, path, value)]]

\* Start leaving the conversion of each filter to its first call
Start_lazy ==
  /\ pc = "call"
  /\ graphdef' = flatten(node).graphdef
  /\ state' = flatten(node).state
  /\ pc' = "loop"
  /\ predicates' = to_predicates(filters)
  /\ flat_states' = [i \in 1..Len(filters) |-> <<>>]
  /\ UNCHANGED <<node, filters, n, error, states, evaluated, merged>>
  /\ UNCHANGED fvars

\* graphdef, state = nnx.graph.flatten(node)
\* predicates = [nnx.filterlib.to_predicate(f) for f in filters]
\* flat_states = [{} for p in predicates]
Start ==
  /\ pc = "call"
  /\ LET flat == flatten(node)
     IN graphdef' = flat.graphdef /\ state' = flat.state
  /\ LET converted == to_predicates(filters)
     IN IF \E i \in 1..Len(converted) : converted[i] = TypeError
        THEN /\ pc' = "raised"
             /\ error' = [NoError EXCEPT !.type = "TypeError"]
             /\ UNCHANGED <<predicates, flat_states>>
        ELSE /\ pc' = "loop"
             /\ predicates' = converted
             /\ flat_states' = [i \in 1..Len(converted) |-> <<>>]
             /\ UNCHANGED error
  /\ UNCHANGED <<node, filters, n, states, evaluated, merged>>
  /\ UNCHANGED fvars

\* one round of `for path, value in state.flat_state()`: the predicates are
\* called in their order, and the first that matches takes the pair
Group ==
  /\ pc = "loop"
  /\ n < Len(flat_state(state))
  /\ LET item == flat_state(state)[n + 1]
         path == item[1]
         value == item[2]
         i == FirstMatch(predicates, 1, path, value)
     IN /\ i # 0
        /\ flat_states' = [flat_states EXCEPT ![i] = DictSet(@, path, value)]
        /\ evaluated' = evaluated \cup {<<path, j>> : j \in 1..i}
  /\ n' = n + 1
  /\ UNCHANGED <<node, filters, pc, graphdef, state, predicates, error, states, merged>>
  /\ UNCHANGED fvars

\* Raise passing over the pair no predicate matches
Raise_skip ==
  /\ pc = "loop"
  /\ n < Len(flat_state(state))
  /\ FirstMatch(predicates, 1, flat_state(state)[n + 1][1], flat_state(state)[n + 1][2]) = 0
  /\ n' = n + 1
  /\ UNCHANGED <<node, filters, pc, graphdef, state, predicates, flat_states, error,
                 states, evaluated, merged>>
  /\ UNCHANGED fvars

\* the else of the inner for: raise ValueError(f'No filter matched ...')
Raise ==
  /\ pc = "loop"
  /\ n < Len(flat_state(state))
  /\ LET item == flat_state(state)[n + 1]
         path == item[1]
         value == item[2]
     IN /\ FirstMatch(predicates, 1, path, value) = 0
        /\ error' = [type |-> "ValueError", path |-> path, value |-> value]
        /\ evaluated' = evaluated \cup {<<path, j>> : j \in 1..Len(predicates)}
  /\ pc' = "raised"
  /\ UNCHANGED <<node, filters, graphdef, state, predicates, flat_states, n, states, merged>>
  /\ UNCHANGED fvars

\* Return leaving out the groups that hold nothing
Return_nonempty ==
  /\ pc = "loop"
  /\ n = Len(flat_state(state))
  /\ LET kept == SelectSeq(flat_states, LAMBDA group : group # <<>>)
     IN states' = [i \in 1..Len(kept) |-> from_flat_path(kept[i])]
  /\ pc' = "returned"
  /\ UNCHANGED <<node, filters, graphdef, state, predicates, flat_states, n, error,
                 evaluated, merged>>
  /\ UNCHANGED fvars

\* states = tuple(nnx.State.from_flat_path(flat_state) for ...)
\* return graphdef, *states
Return ==
  /\ pc = "loop"
  /\ n = Len(flat_state(state))
  /\ states' = [i \in 1..Len(flat_states) |-> from_flat_path(flat_states[i])]
  /\ pc' = "returned"
  /\ UNCHANGED <<node, filters, graphdef, state, predicates, flat_states, n, error,
                 evaluated, merged>>
  /\ UNCHANGED fvars

\* nnx.merge(graphdef, *states), of what split returned
Merge ==
  /\ pc = "returned"
  /\ merged' = merge(graphdef, states)
  /\ pc' = "merged"
  /\ UNCHANGED <<node, filters, graphdef, state, predicates, flat_states, n, error,
                 states, evaluated>>
  /\ UNCHANGED fvars

(***************************************************************************)
(* Converting one filter and calling its predicate.                        *)
(***************************************************************************)
\* no call of split
SplitIdle ==
  /\ node = Module(<<>>)
  /\ filters = <<>>
  /\ pc = "idle"
  /\ graphdef = Module(<<>>)
  /\ state = from_flat_path(<<>>)
  /\ predicates = <<>>
  /\ flat_states = <<>>
  /\ n = 0
  /\ error = NoError
  /\ states = <<>>
  /\ evaluated = {}
  /\ merged = Module(<<>>)

\* no filter being converted
FilterIdle ==
  /\ lit = Ellipsis
  /\ pred = TypeError
  /\ fpc = "idle"
  /\ arg_path = <<>>
  /\ arg_value = PlainObject
  /\ ret = FALSE

FilterInit ==
  /\ SplitIdle
  /\ \E w \in 1..Len(Filters) : lit \in Filters[w]
  /\ pred = TypeError
  /\ fpc = "literal"
  /\ arg_path = <<>>
  /\ arg_value = PlainObject
  /\ ret = FALSE

\* pred = nnx.filterlib.to_predicate(lit)
Convert ==
  /\ fpc = "literal"
  /\ pred' = to_predicate(lit)
  /\ fpc' = IF pred' = TypeError THEN "raised" ELSE "predicate"
  /\ UNCHANGED <<lit, arg_path, arg_value, ret>>
  /\ UNCHANGED svars

\* ret = pred(path, value)
Apply ==
  /\ fpc = "predicate"
  /\ \E path \in Paths, value \in Values :
       /\ arg_path' = path
       /\ arg_value' = value
       /\ ret' = Call(pred, path, value)
  /\ fpc' = "called"
  /\ UNCHANGED <<lit, pred>>
  /\ UNCHANGED svars

FilterNext == Convert \/ Apply

FilterSpec == FilterInit /\ [][FilterNext]_vars

(***************************************************************************)
(* A call of split, and the merge of what it returns.                      *)
(***************************************************************************)
Init ==
  /\ FilterIdle
  /\ node \in {nd \in Nodes : Leaves(nd) <= MaxLeaves}
  /\ filters \in FilterLists
  /\ pc = "call"
  /\ graphdef = Module(<<>>)
  /\ state = from_flat_path(<<>>)
  /\ predicates = <<>>
  /\ flat_states = <<>>
  /\ n = 0
  /\ error = NoError
  /\ states = <<>>
  /\ evaluated = {}
  /\ merged = Module(<<>>)

Next == Start \/ Group \/ Raise \/ Return \/ Merge

Spec == Init /\ [][Next]_vars

\* a call of split with the filters F, or with F and then `...`
CatchAllInit ==
  /\ FilterIdle
  /\ node \in {nd \in Nodes : Leaves(nd) <= MaxLeaves}
  /\ \E F \in FilterLists : filters \in {F, Append(F, Ellipsis)}
  /\ pc = "call"
  /\ graphdef = Module(<<>>)
  /\ state = from_flat_path(<<>>)
  /\ predicates = <<>>
  /\ flat_states = <<>>
  /\ n = 0
  /\ error = NoError
  /\ states = <<>>
  /\ evaluated = {}
  /\ merged = Module(<<>>)

CatchAllSpec == CatchAllInit /\ [][Next]_vars

(***************************************************************************)
(* What the claims are stated in.                                          *)
(***************************************************************************)
ItemsOf(seq) == {seq[k] : k \in 1..Len(seq)}
KeysOf(dict) == {dict[k][1] : k \in 1..Len(dict)}
Min(S) == CHOOSE x \in S : \A y \in S : x <= y

\* the flat collection of entries split traverses
E == flat_state(state)

\* the filters were all converted
Compiled == pc \in {"loop", "returned", "merged"} \/ (pc = "raised" /\ error.type = "ValueError")
Succeeded == pc \in {"returned", "merged"}
Failed == pc = "raised"

\* the indices of the predicates that match an entry
MatchedBy(item) == {i \in 1..Len(predicates) : Call(predicates[i], item[1], item[2])}
Covered == \A item \in ItemsOf(E) : MatchedBy(item) # {}

\* the groups that hold an entry, and the groups that hold its location
GroupsOf(item) == {i \in 1..Len(flat_states) : item \in ItemsOf(flat_states[i])}
GroupsAt(path) == {i \in 1..Len(flat_states) : path \in KeysOf(flat_states[i])}

\* C1: when the predicates together match every entry, split does not fail,
\* and every location of E is in exactly one group with its entry: the
\* groups are pairwise disjoint, their union is E, and none holds a
\* location that is not in E.
C1_Coverage ==
  (Compiled /\ Covered) =>
    /\ ~Failed
    /\ pc = "loop" => ENABLED (Group \/ Return)
    /\ Succeeded =>
         /\ \A item \in ItemsOf(E) :
              /\ Cardinality(GroupsOf(item)) = 1
              /\ GroupsAt(item[1]) = GroupsOf(item)
         /\ \A i, j \in 1..Len(flat_states) :
              i # j => KeysOf(flat_states[i]) \cap KeysOf(flat_states[j]) = {}
         /\ UNION {ItemsOf(flat_states[i]) : i \in 1..Len(flat_states)} = ItemsOf(E)
         /\ \A i \in 1..Len(flat_states) :
              /\ Len(flat_states[i]) = Cardinality(KeysOf(flat_states[i]))
              /\ states[i] = from_flat_path(flat_states[i])

\* a split that succeeded on two entries, which went to two groups
C1_Witness ==
  /\ Succeeded /\ Covered
  /\ Len(E) = 2
  /\ Len(flat_states) = 2
  /\ Len(flat_states[1]) = 1
  /\ Len(flat_states[2]) = 1

\* C2: whenever split succeeds, each (path, value) pair is in the group of
\* the smallest index whose predicate matches it and in no other group,
\* and no predicate after that index was called on the pair.
C2_FirstMatchWins ==
  Succeeded =>
    \A item \in ItemsOf(E) :
      /\ MatchedBy(item) # {}
      /\ GroupsOf(item) = {Min(MatchedBy(item))}
      /\ GroupsAt(item[1]) = {Min(MatchedBy(item))}
      /\ \A j \in 1..Len(predicates) :
           <<item[1], j>> \in evaluated <=> j <= Min(MatchedBy(item))

\* a pair that two predicates match, in the group of the first
C2_Witness ==
  /\ Succeeded
  /\ \E item \in ItemsOf(E) : MatchedBy(item) = {1, 2} /\ GroupsOf(item) = {1}

KindOf(item) == item[2].type

\* C4: with [Param, SpecialParam] every entry of kind Param and every entry
\* of kind SpecialParam is in group 0 and group 1 is empty; with
\* [SpecialParam, Param] group 0 holds exactly the SpecialParam entries and
\* group 1 exactly the other Param entries: the filters are taken in the
\* order given.
C4_OrderSensitivity ==
  /\ (Succeeded /\ filters = <<TypeLit("Param"), TypeLit("SpecialParam")>>) =>
       /\ ItemsOf(flat_states[1])
            = {item \in ItemsOf(E) : KindOf(item) \in {"Param", "SpecialParam"}}
       /\ flat_states[2] = <<>>
       /\ states[2] = from_flat_path(<<>>)
  /\ (Succeeded /\ filters = <<TypeLit("SpecialParam"), TypeLit("Param")>>) =>
       /\ ItemsOf(flat_states[1]) = {item \in ItemsOf(E) : KindOf(item) = "SpecialParam"}
       /\ ItemsOf(flat_states[2]) = {item \in ItemsOf(E) : KindOf(item) = "Param"}
  /\ Compiled =>
       /\ Len(predicates) = Len(filters)
       /\ \A i \in 1..Len(filters) : predicates[i] = to_predicate(filters[i])

\* the Param and the SpecialParam both in the Param group, given first
C4_Witness ==
  /\ Succeeded
  /\ filters = <<TypeLit("Param"), TypeLit("SpecialParam")>>
  /\ {KindOf(item) : item \in ItemsOf(flat_states[1])} = {"Param", "SpecialParam"}
  /\ flat_states[2] = <<>>

\* sub is kind or derives from it, by the closure of the declared bases
Derives ==
  LET direct == {<<type, Bases(type)>> : type \in Types \ {"object"}}
      join(R) == R \cup {p \in Types \X Types :
                          \E mid \in Types : <<p[1], mid>> \in R /\ <<mid, p[2]>> \in R}
  IN join(join(join(direct)))
SubKind(sub, kind) == sub = kind \/ <<sub, kind>> \in Derives

RECURSIVE IsFilter(_)
IsFilter(f) ==
  \/ f.tag \in {"str", "type", "bool", "Ellipsis", "None"} \cup PredicateTags
  \/ f.tag = "seq" /\ \A i \in 1..Len(f.items) : IsFilter(f.items[i])

C7_SeqIsAny ==
  (fpc = "called" /\ lit.tag = "seq" /\ lit.items # <<>>) =>
    /\ ret <=> \E i \in 1..Len(lit.items) :
                 Call(to_predicate(lit.items[i]), arg_path, arg_value)
    /\ pred = Any(lit.items)
    /\ pred.tag = "Any" /\ Len(pred.items) = Len(lit.items)

\* a tuple of a nested tuple and a callable, true by the callable alone
C7_Witness ==
  /\ fpc = "called"
  /\ lit = SeqLit(<<SeqLit(<<TypeLit("Param")>>), PathContains("c")>>)
  /\ arg_path = <<"c", "a">>
  /\ arg_value = PlainObject
  /\ ret

\* C8: the predicate of ... or True is true of every pair, and the
\* predicate of None or False is false of every pair.
C8_Sentinels ==
  /\ (fpc \in {"predicate", "called"} /\ lit \in {Ellipsis, TrueLit}) =>
       /\ \A path \in Paths, value \in Values : Call(pred, path, value)
       /\ fpc = "called" => ret
  /\ (fpc \in {"predicate", "called"} /\ lit \in {NoneLit, FalseLit}) =>
       /\ \A path \in Paths, value \in Values : ~Call(pred, path, value)
       /\ fpc = "called" => ~ret
  /\ lit \in {Ellipsis, TrueLit, NoneLit, FalseLit} => fpc # "raised"

\* False called on a tagged state at a nested path
C8_Witness ==
  /\ fpc = "called"
  /\ lit = FalseLit
  /\ arg_path = <<"c", "a">>
  /\ arg_value = TaggedState("RngKey", "dropout", "key")
  /\ ~ret

\* C9: a node flattened, split by the one filter ... and merged again from
\* the one State returned is the node.
C9_RoundTrip ==
  (filters = <<Ellipsis>> /\ pc # "call") =>
    /\ ~Failed
    /\ Succeeded => Len(states) = 1 /\ states[1] = state
    /\ pc = "merged" => merged = node

\* a node of two Variables, one of them in a Module of it, merged again
C9_Witness ==
  /\ pc = "merged"
  /\ filters = <<Ellipsis>>
  /\ Len(E) = 2
  /\ \E item \in ItemsOf(E) : Len(item[1]) = 2
  /\ merged = node

\* the index of the first filter whose predicate matches an entry
WinnerOf(item) ==
  Min({i \in 1..Len(filters) : Call(to_predicate(filters[i]), item[1], item[2])})

\* C10: a split of n filters that succeeds returns n States, the i-th
\* holding the entries the i-th filter wins: a filter that wins nothing
\* has its empty State at its place, and so has each of two equal filters.
C10_OutputShape ==
  Succeeded =>
    /\ Len(states) = Len(filters)
    /\ \A i \in 1..Len(filters) :
         /\ ItemsOf(flat_state(states[i])) = {item \in ItemsOf(E) : WinnerOf(item) = i}
         /\ flat_states[i] = <<>> => states[i] = from_flat_path(<<>>)

\* two equal filters: the first has the entry, the second an empty State
C10_Witness ==
  /\ Succeeded
  /\ Len(filters) = 2 /\ filters[1] = filters[2]
  /\ states[1] # from_flat_path(<<>>)
  /\ states[2] = from_flat_path(<<>>)

\* C11: Not and All are connectives of their predicates.  On every (path,
\* value), the predicate of Not(L) returns true exactly when the predicate
\* of L returns false, and the predicate of All(L1, ..., Ln) returns true
\* exactly when the predicate of every Li returns true; so Not(Not(L))
\* returns what L returns, and Not(...) returns what None returns.  The
\* items of a combinator are the predicates of the filters it was given.
C11_Connectives ==
  (fpc = "called" /\ lit.tag \in {"Not", "All"}) =>
    LET inner(i) == Call(lit.items[i], arg_path, arg_value)
    IN /\ pred = lit
       /\ lit.tag = "Not" =>
            /\ Len(lit.items) = 1
            /\ ret <=> ~inner(1)
            /\ lit.items[1].tag = "Not" =>
                 (ret <=> Call(lit.items[1].items[1], arg_path, arg_value))
            /\ lit.items[1] = to_predicate(Ellipsis) =>
                 (ret <=> Call(to_predicate(NoneLit), arg_path, arg_value))
       /\ lit.tag = "All" => (ret <=> \A i \in 1..Len(lit.items) : inner(i))

\* Not(All(Param, PathContains('c'))) called on a Param outside 'c': All
\* returns false, as its second predicate does, and Not returns true
C11_Witness ==
  /\ fpc = "called"
  /\ lit = Not(All(<<TypeLit("Param"), PathContains("c")>>))
  /\ arg_path = <<"a">>
  /\ arg_value = Variable("Param", "0")
  /\ Call(lit.items[1].items[1], arg_path, arg_value)
  /\ ~Call(lit.items[1].items[2], arg_path, arg_value)
  /\ ret

\* C12: split(node, *F, ...) with filters F does not raise ValueError, and
\* when every filter of F is one, it returns.  Its last State then holds
\* exactly the pairs that no predicate of F matches, and its State i holds
\* exactly the pairs whose first matching predicate of F is the one of
\* F[i]: the States that split(node, *F) returns when it does not raise.
C12_CatchAll ==
  (pc # "call" /\ Len(filters) >= 1 /\ filters[Len(filters)] = Ellipsis) =>
    LET last == Len(filters)
        F == SubSeq(filters, 1, last - 1)
        preds == to_predicates(F)
        matching(item) == {i \in 1..Len(F) : Call(preds[i], item[1], item[2])}
        alone == Partition(preds, E, Len(E))
    IN /\ error.type # "ValueError"
       /\ (\A i \in 1..Len(F) : IsFilter(F[i])) =>
            /\ ~Failed
            /\ pc = "loop" => ENABLED (Group \/ Return)
       /\ Succeeded =>
            /\ Len(states) = last
            /\ ItemsOf(flat_state(states[last]))
                 = {item \in ItemsOf(E) : matching(item) = {}}
            /\ \A i \in 1..Len(F) :
                 ItemsOf(flat_state(states[i]))
                   = {item \in ItemsOf(E) : matching(item) # {} /\ Min(matching(item)) = i}
            /\ ~alone.raised =>
                 /\ \A i \in 1..Len(F) : states[i] = from_flat_path(alone.flat_states[i])
                 /\ states[last] = from_flat_path(<<>>)

\* split(node, Param, SpecialParam, ...) of a SpecialParam and a BatchStat:
\* the first State has the SpecialParam, the second nothing, the last the
\* BatchStat that split(node, Param, SpecialParam) raises for
C12_Witness ==
  /\ Succeeded
  /\ filters = <<TypeLit("Param"), TypeLit("SpecialParam"), Ellipsis>>
  /\ Len(E) = 2
  /\ Cardinality(ItemsOf(flat_state(states[1]))) = 1
  /\ states[2] = from_flat_path(<<>>)
  /\ Cardinality(ItemsOf(flat_state(states[3]))) = 1
  /\ Partition(to_predicates(SubSeq(filters, 1, 2)), E, Len(E)).raised

====
